---- MODULE Spec2Model ----
(***************************************************************************)
(* A model of the reaction-tester game: the score ledger and achievement   *)
(* engine of src/src/utils/save_manager.py and the reaction trial state    *)
(* machine of src/src/scenes/game_scene.py.                                *)
(*                                                                         *)
(* Conventions.  A Python value that may be None is a sequence of length   *)
(* 0 (None) or 1 (the value).  average_time, a float quotient, is kept as  *)
(* the exact fraction <<numerator, denominator>>.  A JSON object is a      *)
(* record; "key in obj" is key \in DOMAIN obj.  The insertion-ordered dict *)
(* by_difficulty is [keys |-> sequence of keys, data |-> key -> ledger].   *)
(* Clock values are in quarter-milliseconds, so that rounding to a         *)
(* millisecond is a real computation.                                      *)
(***************************************************************************)
EXTENDS Integers, Sequences, FiniteSets, TLC

VARIABLES
    scores,             \* SaveManager.scores
    achievements,       \* SaveManager.achievements
    settings,           \* SaveManager.settings
    scores_file,        \* content of data/scores.json (None when absent)
    achievements_file,  \* content of data/achievements.json
    disk_ok,            \* environment: whether open(file, 'w') succeeds at present
    today,              \* calendar day read by datetime.now()
    boot_file,          \* history: data/scores.json as the constructor found it
    ever,               \* history: every attempt stored for a difficulty, oldest first
    calls,              \* history: number of add_score calls made since start
    last_call,          \* history: the SaveManager operation that ran last
    current_state,      \* GameManager.current_state
    next_state,         \* GameManager.next_state (None when no change is requested)
    game,               \* the GameScene object's fields
    clock,              \* the value time.time() returned last, in quarter-milliseconds
    clock_steady,       \* environment: whether time.time() never goes backward
    cued_at,            \* history: the clock value stored when the cue last fired
    scored_at,          \* history: the clock value the last scoring input read
    paused_from,        \* history: while paused, the phase the pause request found
    adjusts             \* history: number of difficulty adjustments made

ledgerVars == <<scores, achievements, settings, scores_file, achievements_file,
                disk_ok, today, boot_file, ever, calls, last_call>>
sceneVars == <<current_state, next_state, game, clock, clock_steady, cued_at, scored_at,
              paused_from, adjusts>>
vars == <<ledgerVars, sceneVars>>

(***************************************************************************)
(* Python helpers                                                          *)
(***************************************************************************)
None == << >>
Some(x) == <<x>>
IsNone(o) == o = << >>

Has(obj, key) == key \in DOMAIN obj
Get(obj, key, default) == IF key \in DOMAIN obj THEN obj[key] ELSE default

InSeq(x, s) == \E i \in 1..Len(s) : s[i] = x

\* sum() over a list that may be long: fold by value instead of by position
Sum(s) ==
    LET n == Len(s)
        vals == {s[i] : i \in 1..n}
        RECURSIVE Fold(_)
        Fold(V) == IF V = {} THEN 0
                   ELSE LET v == CHOOSE x \in V : TRUE
                        IN v * Cardinality({i \in 1..n : s[i] = v}) + Fold(V \ {v})
    IN Fold(vals)

MinOf(s) == LET V == {s[i] : i \in 1..Len(s)} IN CHOOSE v \in V : \A w \in V : v <= w

\* sorted(list): the ascending arrangement of the list's values, each as
\* often as it occurs
Sorted(s) ==
    LET n == Len(s)
        RECURSIVE Runs(_)
        Runs(V) == IF V = {} THEN << >>
                   ELSE LET v == CHOOSE x \in V : \A y \in V : x <= y
                            c == Cardinality({i \in 1..n : s[i] = v})
                        IN [i \in 1..c |-> v] \o Runs(V \ {v})
    IN Runs({s[i] : i \in 1..n})

\* list[:n]
Take(s, n) == SubSeq(s, 1, IF Len(s) < n THEN Len(s) ELSE n)
\* list[-n:]
LastN(s, n) == SubSeq(s, IF Len(s) > n THEN Len(s) - n + 1 ELSE 1, Len(s))

TimesOf(attempts) == [i \in 1..Len(attempts) |-> attempts[i].time_ms]

(***************************************************************************)
(* Insertion-ordered dict (Python dict)                                    *)
(***************************************************************************)
DictHas(dict, k) == InSeq(k, dict.keys)
DictPut(dict, k, v) ==
    IF DictHas(dict, k)
    THEN [dict EXCEPT !.data[k] = v]
    ELSE [keys |-> Append(dict.keys, k), data |-> (k :> v) @@ dict.data]

(***************************************************************************)
(* SaveManager: score documents                                            *)
(***************************************************************************)
AttemptCap == 500
BestTimesKept == 20

KnownDifficulties == <<"easy", "normal", "hard", "beast", "twitchy-god">>

EmptyStatistics == [total_attempts |-> 0, best_time |-> None, average_time |-> None]
EmptyLedger == [best_times |-> << >>, all_attempts |-> << >>, statistics |-> EmptyStatistics]
DefaultOverall == [total_attempts |-> 0, total_playtime |-> 0, favorite_difficulty |-> "normal"]

get_default_scores_structure ==
    [by_difficulty |-> [keys |-> KnownDifficulties,
                        data |-> [d \in {KnownDifficulties[i] : i \in 1..5} |-> EmptyLedger]],
     overall_statistics |-> DefaultOverall]

\* a file: None (absent), or Some of [valid |-> FALSE] (not JSON) or
\* [valid |-> TRUE, data |-> the JSON object]
JsonFile(obj) == Some([valid |-> TRUE, data |-> obj])

\* variant: nothing is written
save_scores_unwritten(file, sc, writable) == file

\* save_scores: a failed open() is swallowed and leaves the file as it was
save_scores(file, sc, writable) == IF writable THEN JsonFile(sc) ELSE file

\* migrate_old_format up to the save: the new structure built from old_data
migrate_old_format(old_data) ==
    LET new_data == get_default_scores_structure
        stamped(a) == IF Has(a, "difficulty") THEN a ELSE ("difficulty" :> "normal") @@ a
        target(a) == IF DictHas(new_data.by_difficulty, stamped(a).difficulty)
                     THEN stamped(a).difficulty ELSE "normal"
        old_attempts == IF Has(old_data, "all_attempts") THEN old_data.all_attempts ELSE << >>
        placed(d) == LET mine == SelectSeq(old_attempts, LAMBDA a : target(a) = d)
                     IN [i \in 1..Len(mine) |-> stamped(mine[i])]
        old_stats == old_data.statistics
        migrated_stats == [total_attempts |-> Get(old_stats, "total_attempts", 0),
                           best_time |-> Get(old_stats, "best_time", None),
                           average_time |-> Get(old_stats, "average_time", None)]
        stats(d) == IF d = "normal" /\ Has(old_data, "statistics")
                    THEN migrated_stats ELSE EmptyStatistics
        ledger(d) == [best_times |-> IF Len(placed(d)) > 0
                                     THEN Take(Sorted(TimesOf(placed(d))), BestTimesKept)
                                     ELSE << >>,
                      all_attempts |-> placed(d),
                      statistics |-> stats(d)]
    IN [by_difficulty |-> [keys |-> new_data.by_difficulty.keys,
                           data |-> [d \in DOMAIN new_data.by_difficulty.data |-> ledger(d)]],
        overall_statistics |->
            IF Has(old_data, "statistics")
            THEN [new_data.overall_statistics EXCEPT
                    !.total_attempts = Get(old_data.statistics, "total_attempts", 0)]
            ELSE new_data.overall_statistics]

RECURSIVE EnsureDifficulties(_, _)
EnsureDifficulties(dict, i) ==
    IF i > Len(KnownDifficulties) THEN dict
    ELSE EnsureDifficulties(
            IF DictHas(dict, KnownDifficulties[i]) THEN dict
            ELSE DictPut(dict, KnownDifficulties[i], EmptyLedger), i + 1)

\* load_scores: [scores |-> the value returned, migrated |-> whether
\* migrate_old_format ran (it assigns self.scores and calls save_scores)]
load_scores(file) ==
    IF IsNone(file) \/ ~file[1].valid
    THEN [scores |-> get_default_scores_structure, migrated |-> FALSE]
    ELSE LET data == file[1].data IN
         IF ~Has(data, "by_difficulty") /\ (Has(data, "best_times") \/ Has(data, "all_attempts"))
         THEN [scores |-> migrate_old_format(data), migrated |-> TRUE]
         ELSE IF Has(data, "by_difficulty")
         THEN LET filled == [data EXCEPT !.by_difficulty = EnsureDifficulties(@, 1)]
              IN [scores |-> IF Has(filled, "overall_statistics") THEN filled
                             ELSE ("overall_statistics" :> DefaultOverall) @@ filled,
                  migrated |-> FALSE]
         ELSE [scores |-> data, migrated |-> FALSE]

(***************************************************************************)
(* SaveManager.add_score                                                   *)
(***************************************************************************)
\* lines 200-205: all_attempts with the new attempt appended
appended_attempts(ledger, reaction_time_ms, difficulty, day) ==
    Append(ledger.all_attempts,
           [time_ms |-> reaction_time_ms, date |-> day, difficulty |-> difficulty])

\* lines 207-219: the statistics, the average over the list all_times
updated_statistics(stats, reaction_time_ms, all_times) ==
    [total_attempts |-> stats.total_attempts + 1,
     best_time |-> IF IsNone(stats.best_time) \/ reaction_time_ms < stats.best_time[1]
                   THEN Some(reaction_time_ms) ELSE stats.best_time,
     average_time |-> <<Sum(all_times), Len(all_times)>>]

\* variant: the slice [:500] in place of [-500:]
record_attempt_keep_oldest(ledger, reaction_time_ms, difficulty, day) ==
    LET appended == appended_attempts(ledger, reaction_time_ms, difficulty, day)
        all_times == TimesOf(appended)
    IN [best_times |-> Take(Sorted(all_times), BestTimesKept),
        all_attempts |-> Take(appended, AttemptCap),
        statistics |-> updated_statistics(ledger.statistics, reaction_time_ms, all_times)]

\* variant: best_times merged with the new time instead of recomputed
record_attempt_running_best(ledger, reaction_time_ms, difficulty, day) ==
    LET appended == appended_attempts(ledger, reaction_time_ms, difficulty, day)
        all_times == TimesOf(appended)
    IN [best_times |-> Take(Sorted(Append(ledger.best_times, reaction_time_ms)), BestTimesKept),
        all_attempts |-> IF Len(appended) > AttemptCap
                         THEN LastN(appended, AttemptCap) ELSE appended,
        statistics |-> updated_statistics(ledger.statistics, reaction_time_ms, all_times)]

\* lines 200-228: the difficulty's ledger after the new attempt
record_attempt(ledger, reaction_time_ms, difficulty, day) ==
    LET appended == appended_attempts(ledger, reaction_time_ms, difficulty, day)
        all_times == TimesOf(appended)
    IN [best_times |-> Take(Sorted(all_times), BestTimesKept),
        all_attempts |-> IF Len(appended) > AttemptCap
                         THEN LastN(appended, AttemptCap) ELSE appended,
        statistics |-> updated_statistics(ledger.statistics, reaction_time_ms, all_times)]

\* variant: among tied keys the last one in iteration order
favorite_difficulty_last_tied(dict) ==
    LET count(i) == dict.data[dict.keys[i]].statistics.total_attempts
        n == Len(dict.keys)
        best == CHOOSE i \in 1..n : /\ \A j \in 1..n : count(j) <= count(i)
                                    /\ \A j \in (i + 1)..n : count(j) < count(i)
    IN dict.keys[best]

\* max(difficulty_counts, key=difficulty_counts.get): the first key, in
\* iteration order, whose count is the largest
favorite_difficulty(dict) ==
    LET count(i) == dict.data[dict.keys[i]].statistics.total_attempts
        n == Len(dict.keys)
        best == CHOOSE i \in 1..n : /\ \A j \in 1..n : count(j) <= count(i)
                                    /\ \A j \in 1..(i - 1) : count(j) < count(i)
    IN dict.keys[best]

\* lines 186-249, for scores that hold "by_difficulty"
add_score_update(sc, reaction_time_ms, difficulty, day) ==
    LET dict0 == IF DictHas(sc.by_difficulty, difficulty) THEN sc.by_difficulty
                 ELSE DictPut(sc.by_difficulty, difficulty, EmptyLedger)
        dict1 == DictPut(dict0, difficulty,
                         record_attempt(dict0.data[difficulty], reaction_time_ms, difficulty, day))
        overall0 == IF Has(sc, "overall_statistics") THEN sc.overall_statistics
                    ELSE DefaultOverall
        overall1 == [overall0 EXCEPT !.total_attempts = @ + 1,
                                     !.favorite_difficulty = favorite_difficulty(dict1)]
    IN ("by_difficulty" :> dict1) @@ ("overall_statistics" :> overall1) @@ sc

(***************************************************************************)
(* SaveManager: achievements                                               *)
(***************************************************************************)
\* str comparison of the identifiers, as list.sort() applies it
AchievementIds ==
    <<"century_club", "consistent_performer", "dedicated_player", "lightning_fast",
      "quick_draw">>
IdRank(id) == CHOOSE i \in 1..Len(AchievementIds) : AchievementIds[i] = id
SortIds(ids) ==
    LET ranks == Sorted([i \in 1..Len(ids) |-> IdRank(ids[i])])
    IN [i \in 1..Len(ids) |-> AchievementIds[ranks[i]]]

DefaultAchievements == [unlocked |-> << >>, progress |-> << >>]

is_achievement_unlocked(ach, achievement_id) == InSeq(achievement_id, ach.unlocked)

\* variant: the list is not sorted after the append
unlock_achievement_unsorted(ach, achievement_id) ==
    IF ~InSeq(achievement_id, ach.unlocked)
    THEN [achievements |-> [ach EXCEPT !.unlocked = Append(@, achievement_id)],
          returned |-> TRUE, saved |-> TRUE]
    ELSE [achievements |-> ach, returned |-> FALSE, saved |-> FALSE]

\* unlock_achievement: [achievements, returned, saved]
unlock_achievement(ach, achievement_id) ==
    IF ~InSeq(achievement_id, ach.unlocked)
    THEN [achievements |-> [ach EXCEPT !.unlocked = SortIds(Append(@, achievement_id))],
          returned |-> TRUE, saved |-> TRUE]
    ELSE [achievements |-> ach, returned |-> FALSE, saved |-> FALSE]

\* get_statistics side effect and get_recent_attempts side effect: scores
\* without "by_difficulty" are replaced by the default structure and saved
ensure_structure(sc) == IF Has(sc, "by_difficulty") THEN sc ELSE get_default_scores_structure

get_statistics(sc, difficulty) ==
    LET s == ensure_structure(sc)
    IN IF ~DictHas(s.by_difficulty, difficulty) THEN EmptyStatistics
       ELSE s.by_difficulty.data[difficulty].statistics

get_recent_attempts(sc, difficulty, limit) ==
    LET s == ensure_structure(sc)
    IN IF ~DictHas(s.by_difficulty, difficulty) THEN << >>
       ELSE LastN(s.by_difficulty.data[difficulty].all_attempts, limit)

get_best_times(sc, difficulty, limit) ==
    LET s == ensure_structure(sc)
    IN IF ~DictHas(s.by_difficulty, difficulty) THEN << >>
       ELSE Take(s.by_difficulty.data[difficulty].best_times, limit)

\* get_overall_statistics: it also stores the default block it returns
ensure_overall(sc) ==
    LET s == ensure_structure(sc)
    IN IF Has(s, "overall_statistics") THEN s
       ELSE ("overall_statistics" :> DefaultOverall) @@ s
get_overall_statistics(sc) == ensure_overall(sc).overall_statistics

\* what a call gives back: Returned(value), or Raised(exception) when the
\* exception leaves the method
Returned(value) == <<value>>
Raised(exception) == <<"raised", exception>>

DailyStats(difficulty, date_str, daily_attempts) ==
    LET times == TimesOf(daily_attempts)
    IN [date |-> date_str, difficulty |-> difficulty, attempts |-> Len(daily_attempts),
        best_time |-> MinOf(times), average_time |-> <<Sum(times), Len(times)>>,
        total_time |-> Sum(times)]

\* variant: the attempts are not filtered by date
get_daily_stats_any_date(sc, difficulty, date_str, day) ==
    LET date == IF IsNone(date_str) THEN day ELSE date_str[1]
    IN IF ~Has(sc, "by_difficulty") THEN Raised("KeyError")
       ELSE IF ~DictHas(sc.by_difficulty, difficulty) THEN Returned(None)
       ELSE LET daily_attempts == sc.by_difficulty.data[difficulty].all_attempts
            IN IF daily_attempts = << >> THEN Returned(None)
               ELSE Returned(DailyStats(difficulty, date, daily_attempts))

\* get_daily_stats(difficulty, date_str), called on calendar day `day`; it has
\* no try block, so the KeyError of self.scores["by_difficulty"] leaves it
get_daily_stats(sc, difficulty, date_str, day) ==
    LET date == IF IsNone(date_str) THEN day ELSE date_str[1]
    IN IF ~Has(sc, "by_difficulty") THEN Raised("KeyError")
       ELSE IF ~DictHas(sc.by_difficulty, difficulty) THEN Returned(None)
       ELSE LET daily_attempts ==
                    SelectSeq(sc.by_difficulty.data[difficulty].all_attempts,
                              LAMBDA attempt : attempt.date = date)
            IN IF daily_attempts = << >> THEN Returned(None)
               ELSE Returned(DailyStats(difficulty, date, daily_attempts))

\* the positional argument 10 of get_recent_attempts(10) binds to the
\* parameter difficulty; the int 10 equals no str key
IntKey10 == "int:10"

\* one rule of check_achievements: unlock when the condition holds and the
\* identifier is not unlocked yet
Rule(ach, cond, achievement_id) ==
    IF cond /\ ~is_achievement_unlocked(ach, achievement_id)
    THEN unlock_achievement(ach, achievement_id).achievements ELSE ach

\* check_achievements(latest_time_ms): the achievements it leaves
check_achievements(sc, ach, latest_time_ms) ==
    LET stats == get_statistics(sc, "normal")
        a1 == Rule(ach, latest_time_ms <= 150, "lightning_fast")
        a2 == Rule(a1, latest_time_ms <= 200, "quick_draw")
        recent_10 == get_recent_attempts(sc, IntKey10, 20)
        times == TimesOf(recent_10)
        a3 == Rule(a2, /\ stats.total_attempts >= 10
                       /\ Len(recent_10) = 10
                       /\ Sum(times) <= 250 * Len(times), "consistent_performer")
        a4 == Rule(a3, stats.total_attempts >= 100, "century_club")
        a5 == Rule(a4, stats.total_attempts >= 500, "dedicated_player")
    IN a5

\* def check_achievements(self, latest_time_ms): the parameters after self
CheckAchievementsParams == <<"latest_time_ms">>
\* a call binds when it passes one argument per parameter; otherwise it
\* raises TypeError before the body runs
Binds(params, args) == Len(args) = Len(params)

(***************************************************************************)
(* SaveManager operations as actions                                       *)
(***************************************************************************)
\* load_settings: the defaults, or what data/settings.json holds
DefaultSettings == [difficulty |-> "normal", show_statistics |-> TRUE]
\* a "difficulty" that data/settings.json can hold and no dict can look up: a
\* JSON list, which is unhashable
UnhashableDifficulty == "list:[]"
StartSettings ==
    {DefaultSettings, [DefaultSettings EXCEPT !.difficulty = "twitchy-god"],
     [DefaultSettings EXCEPT !.difficulty = UnhashableDifficulty]}

\* every difficulty identifier the model uses: the five profiles and one
\* identifier outside the table
DifficultyUniverse == {KnownDifficulties[i] : i \in 1..Len(KnownDifficulties)} \cup {"zen"}

Call(op, time_ms, key, returned) ==
    [op |-> op, time_ms |-> time_ms, key |-> key, returned |-> returned]

save_achievements(file, ach, writable) == IF writable THEN JsonFile(ach) ELSE file

\* add_score(reaction_time_ms, difficulty)
add_score(reaction_time_ms, difficulty) ==
    LET reloaded == IF Has(scores, "by_difficulty")
                    THEN [scores |-> scores, migrated |-> FALSE]
                    ELSE load_scores(scores_file)
        file0 == IF reloaded.migrated
                 THEN save_scores(scores_file, reloaded.scores, disk_ok) ELSE scores_file
        sc0 == reloaded.scores
    IN /\ calls' = calls + 1
       /\ last_call' = Call("add_score", Some(reaction_time_ms), Some(difficulty), None)
       /\ UNCHANGED <<settings, disk_ok, today, boot_file>>
       /\ IF ~Has(sc0, "by_difficulty")
          THEN \* KeyError at line 187, caught at line 254
               /\ scores' = sc0
               /\ scores_file' = file0
               /\ UNCHANGED <<achievements, achievements_file, ever>>
          ELSE LET sc1 == add_score_update(sc0, reaction_time_ms, difficulty, today)
                   ach1 == IF Binds(CheckAchievementsParams, <<reaction_time_ms, difficulty>>)
                           THEN check_achievements(sc1, achievements, reaction_time_ms)
                           ELSE achievements  \* TypeError, caught at line 254
               IN /\ scores' = sc1
                  /\ scores_file' = save_scores(file0, sc1, disk_ok)
                  /\ achievements' = ach1
                  /\ achievements_file' =
                        IF ach1 # achievements
                        THEN save_achievements(achievements_file, ach1, disk_ok)
                        ELSE achievements_file
                  /\ ever' = [ever EXCEPT ![difficulty] =
                                Append(@, [time_ms |-> reaction_time_ms, date |-> today,
                                           difficulty |-> difficulty])]

\* a direct call check_achievements(latest_time_ms)
CheckAchievementsCall(latest_time_ms) ==
    LET sc1 == ensure_structure(scores)
        ach1 == check_achievements(scores, achievements, latest_time_ms)
    IN /\ scores' = sc1
       /\ scores_file' = IF sc1 # scores THEN save_scores(scores_file, sc1, disk_ok)
                         ELSE scores_file
       /\ achievements' = ach1
       /\ achievements_file' = IF ach1 # achievements
                               THEN save_achievements(achievements_file, ach1, disk_ok)
                               ELSE achievements_file
       /\ last_call' = Call("check_achievements", Some(latest_time_ms), None, None)
       /\ UNCHANGED <<settings, disk_ok, today, boot_file, ever, calls>>

\* a direct call unlock_achievement(achievement_id)
UnlockAchievementCall(achievement_id) ==
    LET r == unlock_achievement(achievements, achievement_id)
    IN /\ achievements' = r.achievements
       /\ achievements_file' = IF r.saved
                               THEN save_achievements(achievements_file, r.achievements, disk_ok)
                               ELSE achievements_file
       /\ last_call' = Call("unlock_achievement", None, Some(achievement_id), Some(r.returned))
       /\ UNCHANGED <<scores, scores_file, settings, disk_ok, today, boot_file, ever, calls>>

\* load_achievements: what data/achievements.json holds, or the defaults
load_achievements(file) ==
    IF IsNone(file) \/ ~file[1].valid THEN DefaultAchievements ELSE file[1].data

\* clear_all_data(): the three attributes are reloaded from the files, then
\* the files that exist are removed.  data/settings.json holds what
\* update_setting saved last, the settings in memory, so that reloading
\* them gives them back.
ClearAllDataCall ==
    LET loaded == load_scores(scores_file)
    IN /\ scores' = loaded.scores
       /\ settings' = settings
       /\ achievements' = load_achievements(achievements_file)
       /\ scores_file' = None
       /\ achievements_file' = None
       /\ last_call' = Call("clear_all_data", None, None, None)
       /\ UNCHANGED <<disk_ok, today, boot_file, ever, calls>>

(***************************************************************************)
(* The documents data/scores.json can hold when the program starts         *)
(***************************************************************************)
Attempt(t, day, d) == [time_ms |-> t, date |-> day, difficulty |-> d]

\* the ledger add_score leaves after recording these times, oldest first, on
\* an empty ledger of difficulty d (at most AttemptCap of them), on day 0
LedgerOf(times, d) ==
    IF Len(times) = 0 THEN EmptyLedger
    ELSE [best_times |-> Take(Sorted(times), BestTimesKept),
          all_attempts |-> [i \in 1..Len(times) |-> Attempt(times[i], 0, d)],
          statistics |-> [total_attempts |-> Len(times),
                          best_time |-> Some(MinOf(times)),
                          average_time |-> <<Sum(times), Len(times)>>]]

\* a scores document this program wrote: keys in insertion order, and the
\* times recorded for each key
WrittenScores(keys, times) ==
    LET dict == [keys |-> keys,
                 data |-> [d \in {keys[i] : i \in 1..Len(keys)} |-> LedgerOf(times[d], d)]]
        total == Sum([i \in 1..Len(keys) |-> Len(times[keys[i]])])
    IN [by_difficulty |-> dict,
        overall_statistics |-> [total_attempts |-> total, total_playtime |-> 0,
                                favorite_difficulty |->
                                    IF total = 0 THEN "normal" ELSE favorite_difficulty(dict)]]

NoTimes == [d \in DifficultyUniverse |-> << >>]

\* short histories
SmallDocs ==
    { WrittenScores(KnownDifficulties, [NoTimes EXCEPT !["normal"] = <<300, 140>>,
                                                       !["hard"] = <<180>>]),
      WrittenScores(Append(KnownDifficulties, "zen"),
                    [NoTimes EXCEPT !["zen"] = <<140>>, !["normal"] = <<180>>]) }

\* partitioned documents of the shapes load_scores completes (lines 38-58):
\* difficulties missing from by_difficulty, overall_statistics missing
LegacyPartitionedDocs ==
    LET full == WrittenScores(<<"normal", "hard">>,
                              [NoTimes EXCEPT !["normal"] = <<180, 300>>, !["hard"] = <<140>>])
    IN { full, [by_difficulty |-> full.by_difficulty] }

\* pre-partition documents: attempts without a difficulty field, with a
\* statistics block in step with them, out of step, partial, or absent
OldAttempts(times) == [i \in 1..Len(times) |-> [time_ms |-> times[i], date |-> 0]]
OldTimes == <<300, 140, 180, 250, 140>>
OldDocs ==
    LET attempts == OldAttempts(OldTimes)
        base == [best_times |-> Take(Sorted(OldTimes), 10), all_attempts |-> attempts]
        stats == [total_attempts |-> 5, best_time |-> Some(140), average_time |-> <<1010, 5>>]
    IN { ("statistics" :> stats) @@ base,
         ("statistics" :> [stats EXCEPT !.total_attempts = 7]) @@ base,
         ("statistics" :> [total_attempts |-> 5]) @@ base,
         base,
         [all_attempts |-> Append(SubSeq(attempts, 1, 2), Attempt(180, 0, "hard"))],
         [all_attempts |-> Append(SubSeq(attempts, 1, 2), Attempt(180, 0, "zen")),
          statistics |-> [total_attempts |-> 3, best_time |-> Some(140),
                          average_time |-> <<620, 3>>]],
         [best_times |-> <<140>>] }

\* a long history of one difficulty: the first attempt a, then b throughout.
\* Preload attempts in all; at most AttemptCap, so that LedgerOf applies.
Preload == 499
LongHistory(a, b) == [i \in 1..Preload |-> IF i = 1 THEN a ELSE b]
LongDocs ==
    { WrittenScores(KnownDifficulties, [NoTimes EXCEPT !["normal"] = LongHistory(a, 180)])
        : a \in {140, 300} }

StartFiles ==
    {None, Some([valid |-> FALSE])}
        \cup {JsonFile(doc) : doc \in SmallDocs \cup LegacyPartitionedDocs \cup OldDocs}
LongFiles == {JsonFile(doc) : doc \in LongDocs}

\* SaveManager.__init__ on the files found
InitSaveManager(files) ==
    \E file \in files :
        LET loaded == load_scores(file) IN
        /\ disk_ok = TRUE
        /\ boot_file = file
        /\ scores = loaded.scores
        /\ scores_file = IF loaded.migrated THEN save_scores(file, loaded.scores, disk_ok)
                         ELSE file
        /\ settings \in StartSettings
        /\ achievements = DefaultAchievements
        /\ achievements_file = None
        /\ today = 1
        /\ ever = [d \in DifficultyUniverse |->
                     IF Has(loaded.scores, "by_difficulty")
                        /\ DictHas(loaded.scores.by_difficulty, d)
                     THEN loaded.scores.by_difficulty.data[d].all_attempts ELSE << >>]
        /\ calls = 0
        /\ last_call = Call("__init__", None, None, None)

(***************************************************************************)
(* Config.DIFFICULTY_SETTINGS (waits in quarter-milliseconds)              *)
(***************************************************************************)
Seconds(tenths) == tenths * 400

DIFFICULTY_SETTINGS ==
    [easy |-> [min_wait |-> Seconds(40), max_wait |-> Seconds(50), countdown_enabled |-> TRUE,
               warning_time |-> Seconds(10),
               excellent_threshold |-> 400, good_threshold |-> 600, average_threshold |-> 800,
               poor_threshold |-> 1000, merh_threshold |-> 1500],
     normal |-> [min_wait |-> Seconds(25), max_wait |-> Seconds(45), countdown_enabled |-> FALSE,
                 warning_time |-> Seconds(5),
                 excellent_threshold |-> 250, good_threshold |-> 400, average_threshold |-> 600,
                 poor_threshold |-> 800, merh_threshold |-> 1200],
     hard |-> [min_wait |-> Seconds(15), max_wait |-> Seconds(40), countdown_enabled |-> FALSE,
               warning_time |-> Seconds(2),
               excellent_threshold |-> 180, good_threshold |-> 300, average_threshold |-> 450,
               poor_threshold |-> 600, merh_threshold |-> 900],
     beast |-> [min_wait |-> Seconds(8), max_wait |-> Seconds(35), countdown_enabled |-> FALSE,
                warning_time |-> 0,
                excellent_threshold |-> 120, good_threshold |-> 200, average_threshold |-> 300,
                poor_threshold |-> 450, merh_threshold |-> 600],
     twitchy_god |-> [min_wait |-> Seconds(3), max_wait |-> Seconds(20),
                      countdown_enabled |-> FALSE, warning_time |-> 0, fake_signals |-> TRUE,
                      excellent_threshold |-> 80, good_threshold |-> 120,
                      average_threshold |-> 180, poor_threshold |-> 250,
                      merh_threshold |-> 350]]

\* Config.DIFFICULTY_SETTINGS.get(difficulty, Config.DIFFICULTY_SETTINGS["normal"])
ProfileOf(difficulty) ==
    CASE difficulty = "easy" -> DIFFICULTY_SETTINGS.easy
      [] difficulty = "normal" -> DIFFICULTY_SETTINGS.normal
      [] difficulty = "hard" -> DIFFICULTY_SETTINGS.hard
      [] difficulty = "beast" -> DIFFICULTY_SETTINGS.beast
      [] difficulty = "twitchy-god" -> DIFFICULTY_SETTINGS.twitchy_god
      [] OTHER -> DIFFICULTY_SETTINGS.normal

get_setting(key, default) == Get(settings, key, default)
get_difficulty_config == ProfileOf(get_setting("difficulty", "normal"))
\* Config.DIFFICULTY_SETTINGS.get raises TypeError on an unhashable key
LookupRaises == get_setting("difficulty", "normal") = UnhashableDifficulty

(***************************************************************************)
(* GameScene                                                               *)
(***************************************************************************)
NewGameScene ==
    [phase |-> "waiting", start_time |-> 0, wait_duration |-> 0, reaction_time |-> None,
     result_message |-> "", performance_rating |-> "", performance_level |-> "average",
     warning_shown |-> FALSE, fake_signal_active |-> FALSE,
     attempts |-> 0, best_time |-> None, session_times |-> << >>,
     target_color |-> "BRIGHT_YELLOW"]

reset_game(g) ==
    [g EXCEPT !.phase = "waiting", !.start_time = 0, !.reaction_time = None,
              !.wait_duration = 0, !.result_message = "", !.performance_rating = "",
              !.performance_level = "average"]

\* GameScene.enter
enter(g) == reset_game(g)

\* variant: the flag of the previous trial is kept
start_reaction_test_stale_flag(g, drawn, roll, now) ==
    LET fake == Get(get_difficulty_config, "fake_signals", FALSE) /\ roll
    IN [g EXCEPT !.wait_duration = IF fake THEN (drawn * 3) \div 2 ELSE drawn,
                 !.start_time = now,
                 !.phase = "ready",
                 !.target_color = "CARTOON_RED",
                 !.warning_shown = FALSE,
                 !.fake_signal_active = fake \/ g.fake_signal_active]

\* start_reaction_test: drawn is random.uniform(min_wait, max_wait), roll is
\* random.random() < 0.3, now is time.time()
start_reaction_test(g, drawn, roll, now) ==
    LET fake == Get(get_difficulty_config, "fake_signals", FALSE) /\ roll
    IN [g EXCEPT !.wait_duration = IF fake THEN (drawn * 3) \div 2 ELSE drawn,
                 !.start_time = now,
                 !.phase = "ready",
                 !.target_color = "CARTOON_RED",
                 !.warning_shown = FALSE,
                 !.fake_signal_active = fake]

\* variant: the fallback does not set the phase
fallback_start_test_unarmed(g, drawn, now) ==
    [g EXCEPT !.wait_duration = drawn, !.start_time = now, !.target_color = "CARTOON_RED"]

\* fallback_start_test: drawn is random.uniform(2.0, 5.0), now is time.time()
fallback_start_test(g, drawn, now) ==
    [g EXCEPT !.wait_duration = drawn,
              !.start_time = now,
              !.phase = "ready",
              !.target_color = "CARTOON_RED"]

handle_early_press(g) ==
    [g EXCEPT !.reaction_time = Some("Too soon!"),
              !.result_message = "Wait for GREEN!",
              !.performance_rating = "OOPS!",
              !.performance_level = "terrible",
              !.phase = "result",
              !.target_color = "BRIGHT_YELLOW"]

\* round(x) for x = quarters / 4: to the nearest integer, a tie to the even one
python_round(quarters) ==
    LET q == quarters \div 4
        r == quarters % 4
    IN IF r < 2 THEN q
       ELSE IF r > 2 THEN q + 1
       ELSE IF q % 2 = 0 THEN q ELSE q + 1

\* variant: int() in place of round()
reaction_ms_truncated(now, start_time) == (now - start_time) \div 4

\* round((time.time() - self.start_time) * 1000)
reaction_ms_of(now, start_time) == python_round(now - start_time)

\* variant: <= in place of <
is_session_best_or_equal(g, reaction_ms) == IsNone(g.best_time) \/ reaction_ms <= g.best_time[1]

is_session_best(g, reaction_ms) == IsNone(g.best_time) \/ reaction_ms < g.best_time[1]

\* variant: a time equal to a ceiling falls into the next level
get_performance_rating_strict(time_ms) ==
    LET difficulty_config == get_difficulty_config
    IN IF time_ms < difficulty_config.excellent_threshold
       THEN [rating |-> "LIGHTNING FAST!", level |-> "excellent"]
       ELSE IF time_ms < difficulty_config.good_threshold
       THEN [rating |-> "SUPER QUICK!", level |-> "good"]
       ELSE IF time_ms < difficulty_config.average_threshold
       THEN [rating |-> "NICE JOB!", level |-> "average"]
       ELSE IF time_ms < difficulty_config.poor_threshold
       THEN [rating |-> "NOT BAD!", level |-> "poor"]
       ELSE IF time_ms < difficulty_config.merh_threshold
       THEN [rating |-> "SLEEPY!", level |-> "meh"]
       ELSE [rating |-> "WAKE UP!", level |-> "terrible"]

get_performance_rating_with_level(time_ms) ==
    LET difficulty_config == get_difficulty_config
    IN IF time_ms <= difficulty_config.excellent_threshold
       THEN [rating |-> "LIGHTNING FAST!", level |-> "excellent"]
       ELSE IF time_ms <= difficulty_config.good_threshold
       THEN [rating |-> "SUPER QUICK!", level |-> "good"]
       ELSE IF time_ms <= difficulty_config.average_threshold
       THEN [rating |-> "NICE JOB!", level |-> "average"]
       ELSE IF time_ms <= difficulty_config.poor_threshold
       THEN [rating |-> "NOT BAD!", level |-> "poor"]
       ELSE IF time_ms <= difficulty_config.merh_threshold
       THEN [rating |-> "SLEEPY!", level |-> "meh"]
       ELSE [rating |-> "WAKE UP!", level |-> "terrible"]

\* handle_successful_reaction up to the call of save_result
handle_successful_reaction(g, now) ==
    LET reaction_ms == reaction_ms_of(now, g.start_time)
        rating_info == get_performance_rating_with_level(reaction_ms)
    IN [g EXCEPT !.reaction_time = <<reaction_ms, "ms">>,
                 !.attempts = @ + 1,
                 !.session_times = Append(@, reaction_ms),
                 !.best_time = IF is_session_best(g, reaction_ms) THEN Some(reaction_ms) ELSE @,
                 !.result_message = IF is_session_best(g, reaction_ms)
                                    THEN "NEW SESSION BEST!" ELSE "AWESOME REFLEXES!",
                 !.performance_rating = rating_info.rating,
                 !.performance_level = rating_info.level,
                 !.phase = "result",
                 !.target_color = "BRIGHT_YELLOW"]

toggle_pause(g) ==
    IF g.phase = "paused" THEN [g EXCEPT !.phase = "waiting"] ELSE [g EXCEPT !.phase = "paused"]

\* variant: the cue fires without restarting the measurement
check_green_transition_keep_start(g, current_time, restart) ==
    IF g.phase = "ready" /\ current_time - g.start_time >= g.wait_duration
    THEN [g EXCEPT !.phase = "green", !.target_color = "CARTOON_GREEN",
                   !.fake_signal_active = FALSE]
    ELSE g

\* variant: the false cue starts the measurement like the real one
check_green_transition_fake_cue_counts(g, current_time, restart) ==
    LET elapsed == current_time - g.start_time
        cued == [g EXCEPT !.phase = "green", !.start_time = restart,
                          !.target_color = "CARTOON_GREEN", !.fake_signal_active = FALSE]
    IN IF g.phase # "ready" \/ LookupRaises THEN g
       ELSE IF g.fake_signal_active /\ 10 * elapsed >= 6 * g.wait_duration THEN cued
       ELSE IF elapsed >= g.wait_duration THEN cued
       ELSE g

\* check_green_transition: current_time is the first time.time(), restart the
\* second one (line 497)
check_green_transition(g, current_time, restart) ==
    IF g.phase # "ready" THEN g
    ELSE IF LookupRaises THEN g  \* TypeError at line 471, caught by GameManager.run
    ELSE
    LET elapsed == current_time - g.start_time
        warning_time == Get(get_difficulty_config, "warning_time", 0)
        g1 == IF warning_time > 0 /\ ~g.warning_shown
                 /\ elapsed >= g.wait_duration - warning_time
              THEN [g EXCEPT !.warning_shown = TRUE] ELSE g
        g2 == IF g1.fake_signal_active /\ 10 * elapsed >= 6 * g1.wait_duration
              THEN IF 10 * elapsed >= 7 * g1.wait_duration
                   THEN [g1 EXCEPT !.target_color = "CARTOON_RED", !.fake_signal_active = FALSE]
                   ELSE [g1 EXCEPT !.target_color = "CARTOON_GREEN"]
              ELSE g1
    IN IF elapsed >= g2.wait_duration
       THEN [g2 EXCEPT !.phase = "green", !.start_time = restart,
                       !.target_color = "CARTOON_GREEN"]
       ELSE g2

(***************************************************************************)
(* The clock and the random source                                         *)
(***************************************************************************)
\* the instants time.time() can return: 0; the start (0.27 s) and the end
\* (0.315 s) of the false cue of the shortest lengthened wait; the end of
\* that wait (0.45 s), and 1.5 ms and 2.5 ms after it; the longest wait
\* (5 s), and 140 ms after it
Instants == {0, 1080, 1260, 1800, 1806, 1810, 20000, 20560}

\* time.time() returns now
Reads(now) == now \in Instants /\ (clock_steady => now >= clock)

\* random.uniform(min_wait, max_wait)
Uniform(lo, hi) == {lo, hi}

(***************************************************************************)
(* Events of the game loop                                                 *)
(***************************************************************************)
LedgerUnchanged == UNCHANGED ledgerVars

\* bounds of a session: trials scored, after which no further trial is armed,
\* and difficulty adjustments made
MaxTrials == 2
MaxAdjust == 1

\* The reads of time.time() that set result_burst_time, a display value, are
\* left out of the handlers below.

\* WAITING: start_reaction_test, whose except clause calls fallback_start_test
\* when get_difficulty_config raises (line 237, before any assignment)
StartTest ==
    /\ calls < MaxTrials
    /\ IF LookupRaises
       THEN \E drawn \in Uniform(Seconds(20), Seconds(50)), now \in Instants :
              /\ Reads(now)
              /\ game' = fallback_start_test(game, drawn, now)
              /\ clock' = now
       ELSE \E drawn \in Uniform(get_difficulty_config.min_wait,
                                 get_difficulty_config.max_wait),
               roll \in BOOLEAN, now \in Instants :
              /\ Reads(now)
              /\ game' = start_reaction_test(game, drawn, roll, now)
              /\ clock' = now
    /\ UNCHANGED <<cued_at, scored_at>>
    /\ LedgerUnchanged

\* variant: save_result leaves the difficulty to add_score's default
SuccessfulReactionDefaultDifficulty ==
    \E now \in Instants :
        /\ Reads(now)
        /\ game' = handle_successful_reaction(game, now)
        /\ clock' = now
        /\ scored_at' = now
        /\ UNCHANGED cued_at
        /\ add_score(reaction_ms_of(now, game.start_time), "normal")

\* GREEN: handle_successful_reaction, which ends in save_result
SuccessfulReaction ==
    \E now \in Instants :
        /\ Reads(now)
        /\ game' = handle_successful_reaction(game, now)
        /\ clock' = now
        /\ scored_at' = now
        /\ UNCHANGED cued_at
        /\ add_score(reaction_ms_of(now, game.start_time), get_setting("difficulty", "normal"))

\* variant: READY dispatched like GREEN
EarlyPressScored == SuccessfulReaction

\* READY: handle_early_press
EarlyPress ==
    /\ game' = handle_early_press(game)
    /\ UNCHANGED <<clock, cued_at, scored_at>>
    /\ LedgerUnchanged

\* RESULT: reset_for_next_attempt
NextAttempt ==
    /\ game' = reset_game(game)
    /\ UNCHANGED <<clock, cued_at, scored_at>>
    /\ LedgerUnchanged

\* space, or a click in the game area: handle_reaction_input
ReactionInput ==
    /\ current_state = "playing"
    /\ UNCHANGED <<current_state, next_state, clock_steady, paused_from, adjusts>>
    /\ CASE game.phase = "paused" -> UNCHANGED <<game, clock, cued_at, scored_at>> /\ LedgerUnchanged
         [] game.phase = "waiting" -> StartTest
         [] game.phase = "ready" -> EarlyPress
         [] game.phase = "green" -> SuccessfulReaction
         [] game.phase = "result" -> NextAttempt

\* key P, or a click on the pause button
PauseInput ==
    /\ current_state = "playing"
    /\ game' = toggle_pause(game)
    /\ paused_from' = IF game'.phase = "paused" THEN Some(game.phase) ELSE None
    /\ UNCHANGED <<current_state, next_state, clock, clock_steady, cued_at, scored_at, adjusts>>
    /\ LedgerUnchanged

\* GameScene.update, one frame
Update ==
    /\ current_state = "playing"
    /\ UNCHANGED <<current_state, next_state, clock_steady, paused_from, adjusts>>
    /\ LedgerUnchanged
    /\ UNCHANGED scored_at
    /\ IF game.phase # "ready"
       THEN UNCHANGED <<game, clock, cued_at>>
       ELSE \E current_time \in Instants, restart \in Instants :
              /\ Reads(current_time)
              /\ clock_steady => restart >= current_time
              /\ game' = check_green_transition(game, current_time, restart)
              /\ clock' = IF game'.phase = "green" THEN restart ELSE current_time
              /\ cued_at' = IF game'.phase = "green" THEN restart ELSE cued_at

\* escape or the back button of the current scene; a menu entry of the main menu
RequestStateChange ==
    /\ \E new_state \in {"main_menu", "playing", "settings"} :
          /\ IF current_state = "main_menu" THEN new_state # "main_menu"
             ELSE new_state = "main_menu"
          /\ next_state' = Some(new_state)
    /\ UNCHANGED <<current_state, game, clock, clock_steady, cued_at, scored_at, paused_from,
                   adjusts>>
    /\ LedgerUnchanged

\* GameManager.change_state, at the end of the frame
ChangeState ==
    /\ ~IsNone(next_state)
    /\ current_state' = next_state[1]
    /\ game' = IF next_state[1] = "playing" THEN enter(game) ELSE game
    /\ next_state' = None
    /\ paused_from' = IF next_state[1] = "playing" THEN None ELSE paused_from
    /\ UNCHANGED <<clock, clock_steady, cued_at, scored_at, adjusts>>
    /\ LedgerUnchanged

\* SettingsScene.adjust_setting on the difficulty option
DifficultyChoices == KnownDifficulties
IndexOf(seq, x) == CHOOSE i \in 1..Len(seq) : seq[i] = x
AdjustDifficulty ==
    /\ current_state = "settings"
    /\ adjusts < MaxAdjust
    /\ adjusts' = adjusts + 1
    /\ \E direction \in {-1, 1} :
          LET current_value == get_setting("difficulty", None)
              current_index == IF InSeq(current_value, DifficultyChoices)
                               THEN IndexOf(DifficultyChoices, current_value) - 1 ELSE 0
              new_index == (current_index + direction) % Len(DifficultyChoices)
          IN settings' = [settings EXCEPT !.difficulty = DifficultyChoices[new_index + 1]]
    /\ UNCHANGED <<scores, achievements, scores_file, achievements_file, disk_ok, today,
                   boot_file, ever, calls, last_call>>
    /\ UNCHANGED <<current_state, next_state, game, clock, clock_steady, cued_at, scored_at,
                   paused_from>>

InitScene ==
    /\ current_state = "main_menu"
    /\ next_state = None
    /\ game = NewGameScene
    /\ clock = 0
    /\ clock_steady = TRUE
    /\ cued_at = 0
    /\ scored_at = 0
    /\ paused_from = None
    /\ adjusts = 0

(***************************************************************************)
(* Specifications                                                          *)
(***************************************************************************)
\* SpecLedger: the SaveManager operations, from the short start documents
MaxCalls == 2
Times == {140, 180, 300}
RecordDifficulties == {"normal", "zen"}

AddScoreCall ==
    /\ calls < MaxCalls
    /\ \E t \in Times, d \in RecordDifficulties : add_score(t, d)
    /\ UNCHANGED sceneVars

CheckAchievements ==
    /\ \E t \in Times : CheckAchievementsCall(t)
    /\ UNCHANGED sceneVars

UnlockAchievement ==
    /\ \E id \in {"quick_draw", "century_club"} : UnlockAchievementCall(id)
    /\ UNCHANGED sceneVars

InitLedger == InitSaveManager(StartFiles) /\ InitScene
NextLedger == AddScoreCall \/ CheckAchievements \/ UnlockAchievement
SpecLedger == InitLedger /\ [][NextLedger]_vars

\* SpecCap: add_score around the cap of stored attempts, from a long history
CapCalls == 3
CapTimes == {140, 300}
CapDifficulties == {"normal", "hard"}

AddScoreAtCap ==
    /\ calls < CapCalls
    /\ \E t \in CapTimes, d \in CapDifficulties : add_score(t, d)
    /\ UNCHANGED sceneVars

InitCap == InitSaveManager(LongFiles) /\ InitScene
NextCap == AddScoreAtCap \/ CheckAchievements
SpecCap == InitCap /\ [][NextCap]_vars

\* SpecDisk: add_score while data/scores.json turns unwritable and writable
DiskToggle ==
    /\ disk_ok' = ~disk_ok
    /\ UNCHANGED <<scores, achievements, settings, scores_file, achievements_file, today,
                   boot_file, ever, calls, last_call>>
    /\ UNCHANGED sceneVars

DiskFiles == {None} \cup {JsonFile(doc) : doc \in SmallDocs}
InitDisk == InitSaveManager(DiskFiles) /\ InitScene
NextDisk == AddScoreCall \/ DiskToggle
SpecDisk == InitDisk /\ [][NextDisk]_vars

\* SpecQueries: the query operations between add_score calls, over two
\* calendar days, from a missing, a short or a foreign scores document
MaxDay == 2
DayPasses ==
    /\ today < MaxDay
    /\ today' = today + 1
    /\ UNCHANGED <<scores, achievements, settings, scores_file, achievements_file,
                   disk_ok, boot_file, ever, calls, last_call>>
    /\ UNCHANGED sceneVars

\* a query: the scores it leaves (saved when it replaced them) and its result;
\* key holds the arguments: the difficulty, and for get_daily_stats also date_str
Query(op, key, sc1, result) ==
    /\ scores' = sc1
    /\ scores_file' = IF sc1 # scores THEN save_scores(scores_file, sc1, disk_ok)
                      ELSE scores_file
    /\ last_call' = Call(op, None, key, result)
    /\ UNCHANGED <<achievements, settings, achievements_file, disk_ok, today, boot_file,
                   ever, calls>>

QueryDifficulties == {"normal", "hard", "beast", "zen"}
QueryDates == {None, Some(0), Some(1)}

GetBestTimes ==
    /\ \E d \in QueryDifficulties :
          Query("get_best_times", Some(d), ensure_structure(scores),
                Returned(get_best_times(scores, d, 10)))
    /\ UNCHANGED sceneVars
GetRecentAttempts ==
    /\ \E d \in QueryDifficulties :
          Query("get_recent_attempts", Some(d), ensure_structure(scores),
                Returned(get_recent_attempts(scores, d, 20)))
    /\ UNCHANGED sceneVars
GetStatistics ==
    /\ \E d \in QueryDifficulties :
          Query("get_statistics", Some(d), ensure_structure(scores),
                Returned(get_statistics(scores, d)))
    /\ UNCHANGED sceneVars
GetOverallStatistics ==
    /\ Query("get_overall_statistics", None, ensure_overall(scores),
             Returned(get_overall_statistics(scores)))
    /\ UNCHANGED sceneVars
GetDailyStats ==
    /\ \E d \in QueryDifficulties, date_str \in QueryDates :
          Query("get_daily_stats", <<d, date_str>>, scores,
                get_daily_stats(scores, d, date_str, today))
    /\ UNCHANGED sceneVars

RecordNormal ==
    /\ calls < MaxCalls
    /\ \E t \in {140, 300} : add_score(t, "normal")
    /\ UNCHANGED sceneVars

\* parseable content of another shape: neither by_difficulty nor the old keys
ForeignDoc == [version |-> 1]
QueryFiles == {None, JsonFile(ForeignDoc)} \cup {JsonFile(doc) : doc \in SmallDocs}
InitQueries == InitSaveManager(QueryFiles) /\ settings = DefaultSettings /\ InitScene
NextQueries ==
    \/ RecordNormal
    \/ DayPasses
    \/ GetBestTimes
    \/ GetRecentAttempts
    \/ GetStatistics
    \/ GetOverallStatistics
    \/ GetDailyStats
SpecQueries == InitQueries /\ [][NextQueries]_vars

\* SpecRating: rate_performance on every profile and on an identifier outside
\* the table, for the times at and next to every ceiling
Ceilings(profile) ==
    <<profile.excellent_threshold, profile.good_threshold, profile.average_threshold,
      profile.poor_threshold, profile.merh_threshold>>
RatingDifficulties == DifficultyUniverse
SlowestTime == 2000
RatingTimes ==
    {0, SlowestTime} \cup
    UNION { {Ceilings(ProfileOf(d))[i] - 1, Ceilings(ProfileOf(d))[i],
             Ceilings(ProfileOf(d))[i] + 1} : d \in RatingDifficulties, i \in 1..5 }

\* rate_performance(time_ms)
RatePerformance ==
    /\ \E time_ms \in RatingTimes :
          LET rating_info == get_performance_rating_with_level(time_ms)
          IN /\ game' = [game EXCEPT !.performance_rating = rating_info.rating,
                                     !.performance_level = rating_info.level]
             /\ last_call' = Call("rate_performance", Some(time_ms), None, None)
    /\ UNCHANGED <<scores, achievements, settings, scores_file, achievements_file, disk_ok,
                   today, boot_file, ever, calls>>
    /\ UNCHANGED <<current_state, next_state, clock, clock_steady, cued_at, scored_at,
                   paused_from, adjusts>>

InitRating ==
    /\ \E d \in RatingDifficulties : settings = [DefaultSettings EXCEPT !.difficulty = d]
    /\ scores = load_scores(None).scores
    /\ scores_file = None
    /\ boot_file = None
    /\ disk_ok = TRUE
    /\ achievements = DefaultAchievements
    /\ achievements_file = None
    /\ today = 1
    /\ ever = [d \in DifficultyUniverse |-> << >>]
    /\ calls = 0
    /\ last_call = Call("__init__", None, None, None)
    /\ InitScene
NextRating == RatePerformance
SpecRating == InitRating /\ [][NextRating]_vars

\* SpecClear: clear_all_data between add_score and unlock_achievement calls,
\* under the default settings
ClearAllData ==
    /\ ClearAllDataCall
    /\ UNCHANGED sceneVars
InitClear == InitSaveManager(DiskFiles) /\ settings = DefaultSettings /\ InitScene
NextClear == AddScoreCall \/ UnlockAchievement \/ ClearAllData
SpecClear == InitClear /\ [][NextClear]_vars

\* Spec: the game loop, from a missing or a short scores document
SessionFiles == {None}
Init == InitSaveManager(SessionFiles) /\ InitScene
Next ==
    \/ ReactionInput
    \/ PauseInput
    \/ Update
    \/ RequestStateChange
    \/ ChangeState
    \/ AdjustDifficulty
Spec == Init /\ [][Next]_vars

\* SpecClock: the game loop under the default settings, on a system clock
\* that can be set back between two readings of time.time()
InitClock ==
    /\ InitSaveManager(SessionFiles)
    /\ settings = DefaultSettings
    /\ current_state = "main_menu"
    /\ next_state = None
    /\ game = NewGameScene
    /\ clock = 0
    /\ clock_steady = FALSE
    /\ cued_at = 0
    /\ scored_at = 0
    /\ paused_from = None
    /\ adjusts = 0
\* bound: trials scored in SpecClock and in SpecLive
ClockTrials == 1
TrialInput ==
    /\ calls < ClockTrials
    /\ ReactionInput
NextClock ==
    \/ TrialInput
    \/ PauseInput
    \/ Update
    \/ RequestStateChange
    \/ ChangeState
SpecClock == InitClock /\ [][NextClock]_vars

\* SpecLive: the game loop on a steady clock, under every start setting,
\* where a frame that changes something keeps coming: GameManager.run calls
\* update once per iteration of its loop
NextLive ==
    \/ TrialInput
    \/ PauseInput
    \/ Update
    \/ RequestStateChange
    \/ ChangeState
SpecLive == Init /\ [][NextLive]_vars /\ WF_vars(Update)

(***************************************************************************)
(* Properties of the reaction trial (Spec)                                 *)
(***************************************************************************)
\* C1: a trial input while the trial is Armed (phase READY) ends the trial as
\* Scored with the disqualified result, which carries no time; the step
\* leaves every ledger, every statistics block, the files and the
\* achievements as they were, and makes no add_score call.
EarlyInputDisqualifies ==
    [][(game.phase = "ready" /\ ReactionInput) =>
          /\ game'.phase = "result"
          /\ game'.reaction_time = Some("Too soon!")
          /\ game'.session_times = game.session_times
          /\ scores' = scores
          /\ achievements' = achievements
          /\ scores_file' = scores_file
          /\ achievements_file' = achievements_file
          /\ calls' = calls
          /\ last_call' = last_call]_vars

\* a disqualified result on screen after an earlier trial was recorded
EarlyInputWitness ==
    /\ game.phase = "result"
    /\ game.reaction_time = Some("Too soon!")
    /\ calls = 1
    /\ Len(scores.by_difficulty.data["normal"].all_attempts) = 1

\* ms is quarters / 4 rounded to the nearest integer, a tie to the even one
NearestMs(ms, quarters) ==
    /\ 4 * ms - quarters \in -2..2
    /\ (4 * ms - quarters \in {-2, 2}) => ms % 2 = 0

\* C2: a trial input while the trial is Cued scores a success whose time_ms
\* is the whole-millisecond rounding of the clock value read at the input
\* minus the clock value stored when the trial became Cued, which is not
\* negative on a clock that does not go backward; the same value goes to
\* add_score, and the time spent Armed is not part of it.
SuccessTimeIsCueToInput ==
    (game.phase = "result" /\ Len(game.reaction_time) = 2) =>
        LET ms == game.reaction_time[1]
        IN /\ NearestMs(ms, scored_at - cued_at)
           /\ clock_steady => ms >= 0
           /\ last_call.op = "add_score" /\ last_call.time_ms = Some(ms)

\* a success 2.5 ms after a cue that came 450 ms after arming: 2 ms
SuccessTimeWitness ==
    /\ game.phase = "result"
    /\ game.reaction_time = <<2, "ms">>
    /\ cued_at = 1800
    /\ scored_at = 1810

(***************************************************************************)
(* Properties of add_score around the cap (SpecCap)                        *)
(***************************************************************************)
LedgerAt(d) == scores.by_difficulty.data[d]
Recorded(d) == last_call.op = "add_score" /\ last_call.key = Some(d)

\* C3: after n attempts were recorded for a difficulty, its all_attempts is
\* the min(n, 500) most recent of them, oldest first, and never longer
\* than 500.
AllAttemptsAreMostRecent ==
    \A d \in CapDifficulties :
        /\ Len(LedgerAt(d).all_attempts) <= 500
        /\ Len(LedgerAt(d).all_attempts) = IF Len(ever[d]) < 500 THEN Len(ever[d]) ELSE 500
        /\ LedgerAt(d).all_attempts = LastN(ever[d], 500)

\* 502 attempts recorded, the two oldest dropped
AllAttemptsWitness ==
    /\ Len(ever["normal"]) = 502
    /\ Len(LedgerAt("normal").all_attempts) = 500
    /\ LedgerAt("normal").all_attempts[1] = ever["normal"][3]

\* C4: after add_score on a difficulty, its best_times is ascending, has
\* min(20, len(all_attempts)) entries and holds exactly the lowest times of
\* the attempts retained in all_attempts.
BestTimesAmongRetained ==
    \A d \in CapDifficulties :
        Recorded(d) =>
            LedgerAt(d).best_times = Take(Sorted(TimesOf(LedgerAt(d).all_attempts)), 20)

AverageOverRetained ==
    \A d \in CapDifficulties :
        Recorded(d) =>
            LET avg == LedgerAt(d).statistics.average_time
                retained == TimesOf(LedgerAt(d).all_attempts)
            IN avg[1] * Len(retained) = Sum(retained) * avg[2]

(***************************************************************************)
(* Properties of the achievements and of loading (SpecLedger)              *)
(***************************************************************************)
Occurrences(x, seq) == Cardinality({i \in 1..Len(seq) : seq[i] = x})

\* C7: after add_score with a time of at most 200 ms, "quick_draw" is in the
\* unlocked list, once.
QuickDrawAfterFastRecord ==
    (last_call.op = "add_score" /\ last_call.time_ms[1] <= 200) =>
        Occurrences("quick_draw", achievements.unlocked) = 1

StrictlyAscending(ids) ==
    \A i, j \in 1..Len(ids) : i < j => IdRank(ids[i]) < IdRank(ids[j])

\* C8: over add_score, check_achievements and unlock_achievement calls the
\* unlocked list stays in ascending order without duplicates and loses no
\* member; unlock_achievement returns True and adds the identifier when it
\* was absent, and returns False and leaves the list as it was otherwise.
UnlockedOnlyGrowsSorted ==
    /\ []StrictlyAscending(achievements.unlocked)
    /\ [][/\ \A id \in DOMAIN AchievementIds :
                InSeq(AchievementIds[id], achievements.unlocked)
                    => InSeq(AchievementIds[id], achievements'.unlocked)
          /\ \A id \in {"quick_draw", "century_club"} :
                UnlockAchievementCall(id) =>
                    IF InSeq(id, achievements.unlocked)
                    THEN /\ last_call'.returned = Some(FALSE)
                         /\ achievements'.unlocked = achievements.unlocked
                    ELSE /\ last_call'.returned = Some(TRUE)
                         /\ \A x \in DOMAIN AchievementIds :
                               InSeq(AchievementIds[x], achievements'.unlocked)
                                   <=> (AchievementIds[x] = id
                                        \/ InSeq(AchievementIds[x], achievements.unlocked))]_vars

\* an identifier unlocked last that sorts first
UnlockedWitness ==
    /\ last_call = Call("unlock_achievement", None, Some("century_club"), Some(TRUE))
    /\ achievements.unlocked = <<"century_club", "lightning_fast", "quick_draw">>

\* a document of the format before the partition by difficulty: no
\* by_difficulty, and attempts that carry no difficulty
PrePartition(file) ==
    /\ ~IsNone(file)
    /\ file[1].valid
    /\ ~Has(file[1].data, "by_difficulty")
    /\ Has(file[1].data, "all_attempts")
    /\ Len(file[1].data.all_attempts) >= 1
    /\ \A i \in 1..Len(file[1].data.all_attempts) :
          ~Has(file[1].data.all_attempts[i], "difficulty")

\* C9: loading a pre-partition document of k attempts without a difficulty
\* puts the k attempts under "normal", with best_times and statistics
\* rebuilt from them (k attempts, their minimum, their mean), sets the
\* overall total to k and writes the migrated ledger back, whatever the old
\* statistics block held and also when there was none.
MigrationRebuildsNormal ==
    (last_call.op = "__init__" /\ PrePartition(boot_file)) =>
        LET old == boot_file[1].data.all_attempts
            times == TimesOf(old)
            normal == LedgerAt("normal")
            avg == normal.statistics.average_time
        IN /\ TimesOf(normal.all_attempts) = times
           /\ \A i \in 1..Len(normal.all_attempts) : normal.all_attempts[i].difficulty = "normal"
           /\ normal.best_times = Take(Sorted(times), 20)
           /\ normal.statistics.total_attempts = Len(old)
           /\ normal.statistics.best_time = Some(MinOf(times))
           /\ Len(avg) = 2
           /\ avg[1] * Len(old) = Sum(times) * avg[2]
           /\ scores.overall_statistics.total_attempts = Len(old)
           /\ scores_file = JsonFile(scores)

\* C10: overall_statistics.total_attempts is the sum of the total_attempts
\* of all difficulties, from a fresh, a loaded partitioned or a migrated
\* ledger on.
OverallTotalIsSum ==
    LET dict == scores.by_difficulty
    IN scores.overall_statistics.total_attempts
         = Sum([i \in 1..Len(dict.keys) |-> dict.data[dict.keys[i]].statistics.total_attempts])

\* C11: after add_score, favorite_difficulty is a difficulty of the ledger
\* whose total_attempts is the largest, and among several such the one that
\* comes first in the ledger's iteration order.
FavoriteIsFirstMaximal ==
    last_call.op = "add_score" =>
        LET dict == scores.by_difficulty
            total(i) == dict.data[dict.keys[i]].statistics.total_attempts
        IN \E i \in 1..Len(dict.keys) :
              /\ scores.overall_statistics.favorite_difficulty = dict.keys[i]
              /\ \A j \in 1..Len(dict.keys) : total(j) <= total(i)
              /\ \A j \in 1..Len(dict.keys) : total(j) = total(i) => i <= j

\* "normal" and the lazily created "zen" tied at one attempt, "zen" recorded last
FavoriteWitness ==
    /\ last_call.op = "add_score" /\ last_call.key = Some("zen")
    /\ scores.by_difficulty.keys = Append(KnownDifficulties, "zen")
    /\ LedgerAt("normal").statistics.total_attempts = 1
    /\ LedgerAt("zen").statistics.total_attempts = 1
    /\ scores.overall_statistics.favorite_difficulty = "normal"

(***************************************************************************)
(* Properties of the session and of pausing (Spec)                         *)
(***************************************************************************)
EntersGameplay == ChangeState /\ next_state = Some("playing")
ScoresSuccess == game.phase = "green" /\ ReactionInput

\* C12: every entry into the gameplay scene leaves the session aggregator
\* reset: attempts 0, best_time None and session_times empty.
SceneEntryResetsSession ==
    [][EntersGameplay =>
          /\ game'.attempts = 0
          /\ game'.best_time = None
          /\ game'.session_times = << >>]_vars

\* C13: a step into a scored success appends the time to session_times, adds
\* 1 to attempts and makes one add_score call with the time and the
\* difficulty held in the settings; no other step changes session_times or
\* attempts or calls add_score.
SuccessSideEffects ==
    [][IF ScoresSuccess
       THEN LET ms == game'.reaction_time[1]
                d == settings.difficulty
            IN /\ game'.session_times = Append(game.session_times, ms)
               /\ game'.attempts = game.attempts + 1
               /\ calls' = calls + 1
               /\ last_call' = Call("add_score", Some(ms), Some(d), None)
               /\ ever' = [ever EXCEPT ![d] = Append(@, Attempt(ms, today, d))]
       ELSE /\ game'.session_times = game.session_times
            /\ game'.attempts = game.attempts
            /\ calls' = calls
            /\ ever' = ever]_vars

\* the second success of a session on twitchy-god
SuccessSideEffectsWitness ==
    /\ game.phase = "result"
    /\ game.attempts = 2
    /\ Len(game.session_times) = 2
    /\ calls = 2
    /\ last_call = Call("add_score", Some(game.session_times[2]), Some("twitchy-god"), None)
    /\ Len(ever["twitchy-god"]) = 2

\* C14: a success sets best_time to its time and shows the session-best label
\* exactly when best_time was None or the time is lower; otherwise best_time
\* stays and the ordinary label is shown.  So best_time is None while
\* session_times is empty and its minimum otherwise.
SessionBestIsMinimum ==
    /\ [](game.best_time = IF game.session_times = << >> THEN None
                           ELSE Some(MinOf(game.session_times)))
    /\ [][ScoresSuccess =>
            LET ms == game'.reaction_time[1]
            IN IF IsNone(game.best_time) \/ ms < game.best_time[1]
               THEN /\ game'.best_time = Some(ms)
                    /\ game'.result_message = "NEW SESSION BEST!"
               ELSE /\ game'.best_time = game.best_time
                    /\ game'.result_message = "AWESOME REFLEXES!"]_vars

\* a second success slower than the first
SessionBestWitness ==
    /\ game.phase = "result"
    /\ game.session_times = <<2, 140>>
    /\ game.best_time = Some(2)
    /\ game.result_message = "AWESOME REFLEXES!"

\* C15: the phase becomes paused only from waiting, ready or green, not from
\* result; leaving paused leads to waiting.
PausedOnlyFromOpenPhases ==
    [][/\ (game.phase # "paused" /\ game'.phase = "paused")
            => game.phase \in {"waiting", "ready", "green"}
       /\ (game.phase = "paused" /\ game'.phase # "paused")
            => game'.phase = "waiting"]_vars

\* C16: a trial that was ready or green when the pause was requested has
\* after the resume the phase it had, its start_time and its wait_duration;
\* without a scene entry a ready or green trial ends only in result.
PausedTrialSurvivesResume ==
    [][/\ (game.phase = "paused" /\ paused_from \in {Some("ready"), Some("green")}
              /\ PauseInput)
            => /\ game'.phase = paused_from[1]
               /\ game'.start_time = game.start_time
               /\ game'.wait_duration = game.wait_duration
       /\ (game.phase \in {"ready", "green"} /\ game'.phase \notin {"ready", "green", "paused"})
            => (game'.phase = "result" \/ EntersGameplay)]_vars

\* C17: a start input in waiting leaves the phase ready, with start_time the
\* clock value read and a wait_duration above 0; when the profile lookup
\* raises, the wait is between 2.0 and 5.0 seconds.
StartInputAlwaysArms ==
    [][(game.phase = "waiting" /\ ReactionInput) =>
          /\ game'.phase = "ready"
          /\ game'.start_time = clock'
          /\ game'.wait_duration > 0
          /\ LookupRaises => game'.wait_duration \in 8000..20000]_vars

\* armed by the fallback
StartInputWitness ==
    /\ settings.difficulty = UnhashableDifficulty
    /\ game.phase = "ready"
    /\ game.start_time = 1080
    /\ game.wait_duration = 20000

(***************************************************************************)
(* Properties of add_score with a failing store (SpecDisk)                 *)
(***************************************************************************)
\* C18: add_score returns also when the write of data/scores.json fails; the
\* ledger in memory then holds the new attempt, the updated total and the
\* time in best_times; and a call whose write succeeds leaves a file that
\* equals the ledger in memory, with every attempt recorded by the calls
\* whose write failed.
WriteFailureKeepsMemory ==
    [][AddScoreCall =>
          LET t == last_call'.time_ms[1]
              d == last_call'.key[1]
              before == IF DictHas(scores.by_difficulty, d)
                        THEN scores.by_difficulty.data[d].statistics.total_attempts ELSE 0
              after == scores'.by_difficulty.data[d]
          IN /\ calls' = calls + 1
             /\ after.all_attempts[Len(after.all_attempts)] = Attempt(t, today, d)
             /\ after.statistics.total_attempts = before + 1
             /\ InSeq(t, after.best_times)
             /\ \A x \in RecordDifficulties : DictHas(scores.by_difficulty, x) =>
                   /\ DictHas(scores'.by_difficulty, x)
                   /\ Len(scores'.by_difficulty.data[x].all_attempts)
                        >= Len(scores.by_difficulty.data[x].all_attempts)
             /\ disk_ok =>
                   /\ scores_file' = JsonFile(scores')
                   /\ \A x \in RecordDifficulties :
                         ever'[x] # << >> =>
                            scores_file'[1].data.by_difficulty.data[x].all_attempts = ever'[x]]_vars

\* the first write failed: no file yet, the attempt is in memory
WriteFailureWitness ==
    /\ boot_file = None
    /\ scores_file = None
    /\ ~disk_ok
    /\ last_call.op = "add_score"
    /\ calls = 1
    /\ Len(scores.by_difficulty.data["normal"].all_attempts) = 1
    /\ scores.by_difficulty.data["normal"].statistics.total_attempts = 1

(***************************************************************************)
(* Properties of the query operations (SpecQueries)                        *)
(***************************************************************************)
\* the step is a call of the query (the name is tested first: the results of
\* different queries are values of different kinds)
DailyStatsStep == last_call'.op = "get_daily_stats" /\ GetDailyStats
AnyQuery ==
    \/ last_call'.op = "get_best_times" /\ GetBestTimes
    \/ last_call'.op = "get_recent_attempts" /\ GetRecentAttempts
    \/ last_call'.op = "get_statistics" /\ GetStatistics
    \/ last_call'.op = "get_overall_statistics" /\ GetOverallStatistics
    \/ DailyStatsStep

\* C19: on a ledger without by_difficulty, each of get_best_times,
\* get_recent_attempts, get_statistics, get_overall_statistics and
\* get_daily_stats returns its empty or default value, and none raises.
QueriesTolerateForeignLedger ==
    [][(AnyQuery /\ ~Has(scores, "by_difficulty")) =>
          last_call'.returned =
              CASE last_call'.op = "get_best_times" -> <<<< >>>>
                [] last_call'.op = "get_recent_attempts" -> <<<< >>>>
                [] last_call'.op = "get_statistics" ->
                      <<[total_attempts |-> 0, best_time |-> None, average_time |-> None]>>
                [] last_call'.op = "get_overall_statistics" ->
                      <<[total_attempts |-> 0, total_playtime |-> 0,
                         favorite_difficulty |-> "normal"]>>
                [] last_call'.op = "get_daily_stats" -> <<None>>]_vars

RECURSIVE TimeSum(_, _)
TimeSum(attempts, idx) ==
    IF idx = {} THEN 0
    ELSE LET i == CHOOSE x \in idx : TRUE
         IN attempts[i].time_ms + TimeSum(attempts, idx \ {i})

\* C20: on a ledger with by_difficulty, get_daily_stats(d, date) returns None
\* when d is not in the ledger or no retained attempt of d has the date
\* (today's when none is given); otherwise the number, the minimum, the mean
\* and the sum of the times of exactly the retained attempts of d with that
\* date.
DailyStatsOfThatDay ==
    [][(DailyStatsStep /\ Has(scores, "by_difficulty")) =>
          LET d == last_call'.key[1]
              date_str == last_call'.key[2]
              date == IF date_str = None THEN today ELSE date_str[1]
              retained == IF DictHas(scores.by_difficulty, d)
                          THEN scores.by_difficulty.data[d].all_attempts ELSE << >>
              idx == {i \in 1..Len(retained) : retained[i].date = date}
              ret == last_call'.returned
          IN IF idx = {} THEN ret = <<None>>
             ELSE /\ Len(ret) = 1
                  /\ ret[1].date = date /\ ret[1].difficulty = d
                  /\ ret[1].attempts = Cardinality(idx)
                  /\ \E i \in idx : ret[1].best_time = retained[i].time_ms
                  /\ \A i \in idx : ret[1].best_time <= retained[i].time_ms
                  /\ ret[1].total_time = TimeSum(retained, idx)
                  /\ ret[1].average_time[1] * Cardinality(idx)
                        = TimeSum(retained, idx) * ret[1].average_time[2]]_vars

\* one attempt of today among three retained, asked for without a date
DailyStatsWitness ==
    /\ last_call.op = "get_daily_stats"
    /\ last_call.key = <<"normal", None>>
    /\ Len(last_call.returned) = 1
    /\ "attempts" \in DOMAIN last_call.returned[1]
    /\ last_call.returned[1].attempts = 1
    /\ Len(scores.by_difficulty.data["normal"].all_attempts) = 3

(***************************************************************************)
(* Properties of the cue (Spec)                                            *)
(***************************************************************************)
\* a step on which the phase becomes GREEN
CueFires == game.phase # "green" /\ game'.phase = "green"

\* C21: the phase becomes Cued (GREEN) only from Armed (READY), only by an
\* update tick of the gameplay scene whose clock reading is at least
\* wait_duration after the stored start instant, and that tick stores the
\* clock value it reads next as the new start instant; a step that is an
\* input, a pause or a resume (any step that is not such a tick) never
\* makes the phase Cued.
CuedOnlyByElapsedTick ==
    [][CueFires =>
          /\ game.phase = "ready"
          /\ current_state = "playing"
          /\ LedgerUnchanged
          /\ paused_from' = paused_from
          /\ \E current_time \in Instants, restart \in Instants :
                /\ current_time - game.start_time >= game.wait_duration
                /\ game' = check_green_transition(game, current_time, restart)
                /\ game'.start_time = restart
                /\ clock' = restart]_vars

\* the cue has fired after the shortest lengthened wait
CuedWitness ==
    /\ game.phase = "green"
    /\ game.start_time = cued_at
    /\ game.wait_duration = 1800
    /\ cued_at >= 1800

\* a step that arms a trial through start_reaction_test's try block
ArmsNormally == game.phase = "waiting" /\ game'.phase = "ready" /\ ~LookupRaises

\* C22: whatever the difficulty set, a trial armed through the normal path
\* gets a wait_duration within [min_wait, max_wait] of the active profile
\* when no fake cue is flagged and within [1.5*min_wait, 1.5*max_wait] when
\* one is; a fake cue is flagged only under a profile that enables fake
\* signals; and the flag left by an earlier trial has no part in it: the
\* armed trial is the one start_reaction_test gives with the flag cleared.
WaitWithinProfile ==
    [][ArmsNormally =>
          LET profile == get_difficulty_config
              wait == game'.wait_duration
          IN /\ game'.fake_signal_active => Get(profile, "fake_signals", FALSE)
             /\ IF game'.fake_signal_active
                THEN 2 * wait >= 3 * profile.min_wait /\ 2 * wait <= 3 * profile.max_wait
                ELSE wait >= profile.min_wait /\ wait <= profile.max_wait
             /\ \E drawn \in Uniform(profile.min_wait, profile.max_wait),
                   roll \in BOOLEAN, now \in Instants :
                   game' = start_reaction_test([game EXCEPT !.fake_signal_active = FALSE],
                                               drawn, roll, now)]_vars

\* a trial armed with a fake cue flagged and the longest lengthened wait (3 s)
WaitWitness ==
    /\ game.phase = "ready"
    /\ game.fake_signal_active
    /\ game.wait_duration = 12000
    /\ get_setting("difficulty", "normal") = "twitchy-god"

\* C23: a flagged fake cue does not change the trial's outcome.  On a trial
\* that is Armed with the fake flag set: a trial input ends it as an early
\* press (disqualified, nothing recorded), also while the false cue is
\* displayed; a tick whose elapsed time is in [0.6, 0.7) of wait_duration
\* shows the false cue and leaves the phase Armed; a tick whose elapsed time
\* is at least 0.7 of wait_duration leaves the flag cleared; and a tick makes
\* the phase Cued exactly when its elapsed time is at least wait_duration,
\* which is what the same tick does on the same trial without the flag.
FakeCueIsCosmetic ==
    [][(current_state = "playing" /\ game.phase = "ready" /\ game.fake_signal_active) =>
          LET wait == game.wait_duration
              elapsed == clock' - game.start_time
          IN /\ ReactionInput =>
                   /\ game' = handle_early_press(game)
                   /\ game'.phase = "result"
                   /\ game'.reaction_time = Some("Too soon!")
                   /\ game'.session_times = game.session_times
                   /\ LedgerUnchanged
             /\ (Update /\ game'.phase = "ready") =>
                   /\ elapsed < wait
                   /\ 10 * elapsed >= 7 * wait => ~game'.fake_signal_active
                   /\ (10 * elapsed >= 6 * wait /\ 10 * elapsed < 7 * wait) =>
                         game'.fake_signal_active /\ game'.target_color = "CARTOON_GREEN"
                   /\ 10 * elapsed < 6 * wait =>
                         game'.fake_signal_active /\ game'.target_color = game.target_color
             /\ (Update /\ game'.phase # "ready") =>
                   /\ game'.phase = "green"
                   /\ ~game'.fake_signal_active
                   /\ \E current_time \in Instants :
                         /\ current_time - game.start_time >= wait
                         /\ game' = check_green_transition(game, current_time, clock')
             /\ \A current_time \in Instants, restart \in Instants :
                   LET flagged == check_green_transition(game, current_time, restart)
                       plain == check_green_transition(
                                    [game EXCEPT !.fake_signal_active = FALSE],
                                    current_time, restart)
                   IN /\ flagged.phase = plain.phase
                      /\ flagged.start_time = plain.start_time
                      /\ flagged.phase = "green" <=> current_time - game.start_time >= wait]_vars

\* an input during the display of the false cue (0.27 s into a wait of
\* 0.45 s) has ended the trial as an early press
FakeCueWitness ==
    /\ game.phase = "result"
    /\ game.reaction_time = Some("Too soon!")
    /\ game.fake_signal_active
    /\ game.wait_duration = 1800
    /\ 10 * (clock - game.start_time) >= 6 * game.wait_duration
    /\ 10 * (clock - game.start_time) < 7 * game.wait_duration

(***************************************************************************)
(* Properties of the achievement rules (SpecCap)                           *)
(***************************************************************************)
\* C24: an evaluation of the achievement rules, called directly or at the
\* end of a record call, leaves "consistent_performer" unlocked exactly when
\* it was unlocked before or the default difficulty's ledger holds at least
\* 10 attempts and the mean of its 10 most recent times is at most 250;
\* with fewer than 10 attempts the evaluation does not unlock it.
ConsistentPerformerOnLastTen ==
    [][(/\ last_call'.op \in {"check_achievements", "add_score"}
        /\ CheckAchievements \/ AddScoreAtCap) =>
          LET attempts == LedgerAt("normal").all_attempts
              recent_10 == TimesOf(LastN(attempts, 10))
              average_at_most_250 == Sum(recent_10) <= 250 * 10
          IN is_achievement_unlocked(achievements, "consistent_performer")'
                <=> \/ is_achievement_unlocked(achievements, "consistent_performer")
                    \/ (Len(attempts') >= 10 /\ average_at_most_250')]_vars

(***************************************************************************)
(* Properties of the measurement on an unsteady clock (SpecClock)          *)
(***************************************************************************)
\* C25: when the clock value read at the scoring input is lower than the
\* clock value stored when the trial became Cued, the time shown, appended
\* to session_times and passed to add_score is 0; and no negative time is
\* ever held in session_times or in the all_attempts of any difficulty.
BackwardClockScoresZero ==
    /\ [][(TrialInput /\ game.phase = "green" /\ scored_at' < cued_at) =>
             /\ game'.reaction_time = <<0, "ms">>
             /\ game'.session_times = Append(game.session_times, 0)
             /\ last_call'.op = "add_score" /\ last_call'.time_ms = Some(0)]_vars
    /\ [](\A i \in 1..Len(game.session_times) : game.session_times[i] >= 0)
    /\ [](Has(scores, "by_difficulty") =>
             \A d \in DifficultyUniverse :
                DictHas(scores.by_difficulty, d) =>
                   \A i \in 1..Len(LedgerAt(d).all_attempts) :
                      LedgerAt(d).all_attempts[i].time_ms >= 0)

(***************************************************************************)
(* Properties of the performance rating (SpecRating)                       *)
(***************************************************************************)
PerformanceLevels == <<"excellent", "good", "average", "poor", "meh">>

\* the level of the first ceiling, in the order of PerformanceLevels, that
\* is at least reaction_ms; "terrible" when there is none
FirstLevelAtLeast(ceilings, reaction_ms) ==
    LET fits == {i \in 1..Len(ceilings) : ceilings[i] >= reaction_ms}
    IN IF fits = {} THEN "terrible"
       ELSE PerformanceLevels[CHOOSE i \in fits : \A j \in fits : i <= j]

\* C26: under every profile, the level given to a time of at least 0 is the
\* level of the first ceiling (excellent, good, average, poor, meh) that is
\* at least that time, and "terrible" when the time exceeds all five; the
\* five ceilings of every profile are strictly ascending; a difficulty
\* identifier outside the table is rated with the "normal" profile.
RatingIsFirstCeiling ==
    /\ \A i \in 1..Len(KnownDifficulties), k \in 1..4 :
          Ceilings(ProfileOf(KnownDifficulties[i]))[k]
              < Ceilings(ProfileOf(KnownDifficulties[i]))[k + 1]
    /\ last_call.op = "rate_performance" =>
          LET difficulty == get_setting("difficulty", "normal")
              profile == IF InSeq(difficulty, KnownDifficulties)
                         THEN DIFFICULTY_SETTINGS[IF difficulty = "twitchy-god"
                                                  THEN "twitchy_god" ELSE difficulty]
                         ELSE DIFFICULTY_SETTINGS.normal
          IN game.performance_level = FirstLevelAtLeast(Ceilings(profile), last_call.time_ms[1])

\* a time equal to the first ceiling of "normal", rated under an identifier
\* outside the table
RatingWitness ==
    /\ last_call.op = "rate_performance"
    /\ get_setting("difficulty", "normal") = "zen"
    /\ last_call.time_ms = Some(250)
    /\ game.performance_level = "excellent"

(***************************************************************************)
(* Properties of clear_all_data (SpecClear)                                *)
(***************************************************************************)
\* C27: when clear_all_data() returns, the scores, the settings and the
\* achievements in memory are the default structures, and the scores and
\* achievements documents no longer exist (settings.json is not a variable
\* of the model), whatever was recorded or unlocked before the call.
ClearLeavesDefaults ==
    [][(last_call'.op = "clear_all_data" /\ ClearAllData) =>
          /\ scores' = get_default_scores_structure
          /\ settings' = DefaultSettings
          /\ achievements' = DefaultAchievements
          /\ scores_file' = None
          /\ achievements_file' = None]_vars

(***************************************************************************)
(* Progress of an Armed trial (SpecLive)                                   *)
(***************************************************************************)
\* the last instant the clock of the model reaches
Horizon == CHOOSE t \in Instants : \A u \in Instants : u <= t

\* C28: a trial that is Armed in the gameplay scene, with its cue due before
\* the clock's last instant, does not stay Armed forever while the ticks
\* keep coming: the phase becomes Cued, unless a trial input, a pause
\* request or a scene change ends the wait first.
ArmedLeadsToCued ==
    (/\ current_state = "playing"
     /\ game.phase = "ready"
     /\ game.start_time + game.wait_duration <= Horizon)
        ~> (game.phase = "green" \/ game.phase # "ready" \/ current_state # "playing")

(***************************************************************************)
(* Frame and consistency of add_score (SpecLedger)                         *)
(***************************************************************************)
\* C29: a record call on difficulty d leaves the ledger of every other
\* difficulty as it was (all_attempts, best_times and statistics), adds
\* exactly 1 to d's statistics.total_attempts (counted from 0 when d had no
\* ledger), and leaves that counter at least as large as the number of
\* attempts retained for d.
RecordChangesOnlyItsLedger ==
    [][(last_call'.op = "add_score" /\ (AddScoreCall \/ AddScoreAtCap)) =>
          LET d == last_call'.key[1]
              before == scores.by_difficulty
              after == scores'.by_difficulty
              total_before == IF DictHas(before, d)
                              THEN before.data[d].statistics.total_attempts ELSE 0
          IN /\ DictHas(after, d)
             /\ \A other \in DifficultyUniverse \ {d} :
                   /\ DictHas(after, other) <=> DictHas(before, other)
                   /\ DictHas(before, other) => after.data[other] = before.data[other]
             /\ after.data[d].statistics.total_attempts = total_before + 1
             /\ after.data[d].statistics.total_attempts >= Len(after.data[d].all_attempts)]_vars

\* C30: after a record call on difficulty d, statistics(d).best_time is the
\* first (lowest) element of best_times(d), and both are the minimum time
\* among the attempts retained in all_attempts(d).
BestTimeIsRetainedMinimum ==
    (last_call.op = "add_score" /\ Has(scores, "by_difficulty")) =>
        LET d == last_call.key[1]
            ledger == LedgerAt(d)
            retained == TimesOf(ledger.all_attempts)
        IN (DictHas(scores.by_difficulty, d) /\ Len(retained) >= 1) =>
              /\ Len(ledger.best_times) >= 1
              /\ ledger.statistics.best_time = Some(ledger.best_times[1])
              /\ ledger.best_times[1] = MinOf(retained)

====
